---- MODULE Spec2Model ----
(***************************************************************************)
(* Model of package sndtag: New sniffs the first bytes of an io.Reader and *)
(* hands a RIFF stream to newWav, which reads the container length, the    *)
(* "WAVE" tag and one subchunk ("fmt ", "data", "LIST" or "INFO").         *)
(* NewGetter (getter.go) is the entry point of the draft of the reader     *)
(* that returns a Getter: its newWav reads the container length, "WAVE"    *)
(* and a "fmt " chunk whose length it checks (readFormatLength).           *)
(*                                                                         *)
(* The io.Reader is an in-memory reader (bytes.Reader) over the byte       *)
(* sequence `stream`: a Read of n bytes returns min(n, remaining) bytes,   *)
(* and io.EOF exactly when nothing remains.  A Go string is modelled as    *)
(* the sequence of its bytes, a decimal string as the sequence of its      *)
(* characters.                                                             *)
(***************************************************************************)
EXTENDS Integers, Sequences, FiniteSets, TLC

\* ------------------------------------------------------------------ bounds
\* Most payload bytes a generated "data" or "LIST" chunk carries.
MaxData == 8
\* Most well-formed "fmt " chunks that follow the first chunk of a stream.
MaxTrailing == 1

\* ---------------------------------------------------------------- literals
\* The byte sequences of the string literals the code compares against.
TAG3 == <<84, 65, 71>>
RIF3 == <<82, 73, 70>>
ByteF == 70
WAVE == <<87, 65, 86, 69>>
FMT == <<102, 109, 116, 32>>
DATA == <<100, 97, 116, 97>>
LIST == <<76, 73, 83, 84>>
INFO == <<73, 78, 70, 79>>

\* Error values.  io.EOF and io.ErrUnexpectedEOF are the sentinels of package
\* io; the others are the fmt.Errorf messages of the package, by format string.
NoErr == "nil"
EOF == "EOF"
ErrUnexpectedEOF == "unexpected EOF"
ErrShortRead == "expected to read %d bytes, actually read %d"
ErrUnrecognizedHeader == "unrecognized header: %s"
ErrNotRIFF == "expected RIFF, got %s"
ErrChunkID == "expected chunk ID %s, got %s"
ErrPCM == "expected pcm audio format %d, got %d"
ErrUnrecognizedChunk == "unrecognized chunk ID: %s"
ErrFmtLength == "expected fmt chunk length %d, got %d"
ErrID3 == "id3"

\* ----------------------------------------------------------------- helpers
Min(a, b) == IF a < b THEN a ELSE b
Max(a, b) == IF a > b THEN a ELSE b

\* binary.LittleEndian decoding of 2 bytes as an int16 (two's complement).
LEInt16(b) ==
    LET u == b[1] + 256 * b[2]
    IN  IF u >= 32768 THEN u - 65536 ELSE u

\* LEInt32 with the byte order reversed (binary.BigEndian in place of
\* binary.LittleEndian).
LEInt32BigEndian(b) ==
    LET low == b[4] + 256 * b[3] + 65536 * b[2] + 16777216 * (b[1] % 128)
    IN  IF b[1] >= 128 THEN (low - 2147483647) - 1 ELSE low

\* binary.LittleEndian decoding of 4 bytes as an int32 (two's complement).
\* The low 31 bits are summed first so that no intermediate value leaves the
\* int32 range.
LEInt32(b) ==
    LET low == b[1] + 256 * b[2] + 65536 * b[3] + 16777216 * (b[4] % 128)
    IN  IF b[4] >= 128 THEN (low - 2147483647) - 1 ELSE low

DigitChar == <<"0", "1", "2", "3", "4", "5", "6", "7", "8", "9">>

\* strconv.FormatInt(v, 10) / strconv.Itoa(v): the decimal characters of v,
\* with a leading "-" for a negative value.
RECURSIVE FormatNat(_)
FormatNat(n) ==
    IF n < 10 THEN <<DigitChar[n + 1]>>
    ELSE Append(FormatNat(n \div 10), DigitChar[(n % 10) + 1])

RECURSIVE FormatNeg(_)
FormatNeg(v) ==
    \* v < 0; d is the last decimal digit of |v|
    LET d == (10 - (v % 10)) % 10
        rest == (v + d) \div 10
    IN  IF rest = 0 THEN <<DigitChar[d + 1]>>
        ELSE Append(FormatNeg(rest), DigitChar[d + 1])

FormatInt(v) == IF v < 0 THEN <<"-">> \o FormatNeg(v) ELSE FormatNat(v)

\* m[prop] = val on a Go map.
MapSet(m, prop, val) ==
    [k \in (DOMAIN m) \cup {prop} |-> IF k = prop THEN val ELSE m[k]]

EmptyMap == [k \in {} |-> <<>>]

\* A returned map[string]string: the nil map, or a map value.
NilMap == [isNil |-> TRUE, m |-> EmptyMap]
MapOf(m) == [isNil |-> FALSE, m |-> m]


\* ------------------------------------------------------------------ readers
\* (bytes.Reader).Read into a buffer of n bytes with avail bytes remaining:
\* the number of bytes read and the error.
Read(n, avail) ==
    IF avail = 0 THEN [n |-> 0, err |-> EOF]
    ELSE [n |-> Min(n, avail), err |-> NoErr]

\* (io.LimitedReader).Read with N bytes left of the limit.
LimitedRead(n, N, avail) ==
    IF N <= 0 THEN [n |-> 0, err |-> EOF]
    ELSE Read(Min(n, N), avail)

\* io.ReadFull of n bytes, as binary.Read calls it: io.EOF when no byte was
\* read, io.ErrUnexpectedEOF when some but not all were.
ReadFull(n, avail) ==
    LET got == Min(n, avail)
    IN  [n |-> got,
         err |-> IF got = n THEN NoErr
                 ELSE IF got = 0 THEN EOF ELSE ErrUnexpectedEOF]

\* io.ReadFull of n bytes from an io.LimitedReader with N bytes left.
LimitedReadFull(n, N, avail) == ReadFull(n, Min(Max(N, 0), avail))

\* io.CopyN(ioutil.Discard, r, n): copies from LimitReader(r, n) until it ends;
\* nil when written = n, io.EOF when written < n, and Copy's nil otherwise
\* (n < 0: nothing is written and 0 is neither equal to nor less than n).
CopyN(n, avail) ==
    LET written == Min(Max(n, 0), avail)
    IN  [n |-> written,
         err |-> IF written = n THEN NoErr
                 ELSE IF written < n THEN EOF ELSE NoErr]

\* ------------------------------------------------------------------ inputs
\* The streams New is run on: a 4-byte magic, a 4-byte container length, a
\* 4-byte format tag, one chunk and up to MaxTrailing well-formed "fmt "
\* chunks, cut at every length.
LE16Bytes(v) == <<v % 256, v \div 256>>

RECURSIVE Fill(_)
Fill(n) == IF n <= 0 THEN <<>> ELSE Append(Fill(n - 1), 7)

RECURSIVE Repeat(_, _)
Repeat(s, n) == IF n <= 0 THEN <<>> ELSE s \o Repeat(s, n - 1)

Headers == { <<82, 73, 70, 70>>,      \* "RIFF"
             <<82, 73, 70, 88>>,      \* "RIFX"
             <<84, 65, 71, 49>>,      \* "TAG1"
             <<79, 103, 103, 83>> }   \* "OggS"

RiffLens == { <<36, 0, 0, 0>> }

FormatTags == { WAVE, <<65, 86, 73, 32>> }   \* "WAVE", "AVI "

\* 44100 and 176400 little-endian, and a sample rate with the high bit set.
SampleRates == { <<68, 172, 0, 0>>, <<68, 172, 0, 128>> }
ByteRate176400 == <<16, 177, 2, 0>>

FmtPayload(tag, channels, rate, bits) ==
    LE16Bytes(tag) \o LE16Bytes(channels) \o rate \o ByteRate176400
        \o LE16Bytes(4) \o LE16Bytes(bits)

ValidFmt == FMT \o <<16, 0, 0, 0>> \o FmtPayload(1, 2, <<68, 172, 0, 0>>, 16)

FmtLens == { <<16, 0, 0, 0>>, <<0, 0, 0, 0>>, <<2, 0, 0, 0>>, <<3, 0, 0, 0>>,
             <<18, 0, 0, 0>>, <<16, 0, 0, 128>> }

FmtChunks ==
    { FMT \o l \o FmtPayload(t, c, r, b) \o (IF l[1] > 16 THEN Fill(l[1] - 16) ELSE <<>>) :
        l \in FmtLens, t \in {1, 2, 65534}, c \in {2, 65535},
        r \in SampleRates, b \in {16} }

\* The payload bytes a generated chunk of declared length l carries.
Present(l) ==
    IF l[2] = 0 /\ l[3] = 0 /\ l[4] = 0 THEN Min(l[1], MaxData) ELSE MaxData

DataLens == { <<0, 0, 0, 0>>, <<1, 0, 0, 0>>, <<5, 0, 0, 0>>, <<8, 0, 0, 0>>,
              <<0, 1, 0, 0>>, <<5, 0, 0, 128>>, <<255, 255, 255, 255>> }

DataChunks == { DATA \o l \o Fill(Present(l)) : l \in DataLens }

ListLens == { <<0, 0, 0, 0>>, <<2, 0, 0, 0>>, <<4, 0, 0, 0>>, <<8, 0, 0, 0>>,
              <<4, 0, 0, 128>> }

ListChunks ==
    { LIST \o l \o SubSeq(sub \o Fill(MaxData), 1, Present(l)) :
        l \in ListLens, sub \in { INFO, <<97, 100, 116, 108>> } }   \* "adtl"

OtherChunks ==
    { id \o l \o Fill(Present(l)) :
        id \in { INFO, <<74, 85, 78, 75>>, <<102, 97, 99, 116>> },   \* "JUNK", "fact"
        l \in { <<0, 0, 0, 0>>, <<4, 0, 0, 0>> } }

Chunks == FmtChunks \cup DataChunks \cup ListChunks \cup OtherChunks

Trailers == { Repeat(ValidFmt, n) : n \in 0..MaxTrailing }

Fulls ==
    { h \o rl \o t \o c \o tr :
        h \in Headers, rl \in RiffLens, t \in FormatTags, c \in Chunks, tr \in Trailers }

Streams == UNION { { SubSeq(f, 1, n) : n \in 0..Len(f) } : f \in Fulls }

\* ------------------------------------------------------------------- state
VARIABLES
    api,         \* the entry point called: "New" or "NewGetter"
    stream,      \* the bytes behind the io.Reader r
    pos,         \* bytes of r consumed so far
    pc,          \* the statement New has reached
    header,      \* New's header buffer (3 bytes)
    length,      \* wav.length
    metadata,    \* wav.metadata (wav.store in the Getter draft)
    chunkStart,  \* pos at the call of readChunk
    chunkID,     \* readChunk's id
    chunkLen,    \* readChunk's length (int32)
    limN,        \* N of the io.LimitedReader `data` readChunk returns
    err,         \* the error newWav returns to New
    result,      \* the first return value of New / NewGetter
    retErr       \* the second return value of New / NewGetter

vars == <<api, stream, pos, pc, header, length, metadata, chunkStart, chunkID,
          chunkLen, limN, err, result, retErr>>

Avail == Len(stream) - pos

\* The next n bytes of r.
Bytes(n) == SubSeq(stream, pos + 1, pos + n)

Init ==
    /\ api \in {"New", "NewGetter"}
    /\ stream \in Streams
    /\ pos = 0
    /\ pc = api
    /\ header = <<>>
    /\ length = 0
    /\ metadata = EmptyMap
    /\ chunkStart = 0
    /\ chunkID = <<>>
    /\ chunkLen = 0
    /\ limN = 0
    /\ err = NoErr
    /\ result = NilMap
    /\ retErr = NoErr

\* New / NewGetter returns (nil, e).
ReturnError(e) ==
    /\ pc' = "done"
    /\ result' = NilMap
    /\ retErr' = e

\* newWav returns (nil, e) to New.
WavFails(e) ==
    /\ pc' = "return"
    /\ err' = e

\* newWav returns (w.metadata, nil) to New.
WavSucceeds ==
    /\ pc' = "return"
    /\ err' = NoErr

\* The switch of New on the 3-byte header: the statement it selects.
HeaderCase(h) ==
    IF h = TAG3 THEN "newID3"
    ELSE IF h = RIF3 THEN "checkRIFFLastByte"
    ELSE "default"

\* New, up to its switch: reads the first 3 bytes and figures out the type.
Sniff ==
    /\ pc = "New"
    /\ LET rd == Read(3, Avail)
       IN  /\ pos' = pos + rd.n
           /\ header' = Bytes(rd.n)
           /\ IF rd.err # NoErr THEN ReturnError(rd.err)
              ELSE IF rd.n # 3 THEN ReturnError(ErrShortRead)
              ELSE IF HeaderCase(Bytes(3)) = "default"
                   THEN ReturnError(ErrUnrecognizedHeader)
              ELSE /\ pc' = HeaderCase(Bytes(3))
                   /\ UNCHANGED <<result, retErr>>
    /\ UNCHANGED <<api, stream, length, metadata, chunkStart, chunkID, chunkLen, limN, err>>

\* newID3: the reader of the legacy tag block, which returns a mapping or an
\* error.
NewID3 ==
    /\ pc = "newID3"
    /\ pc' = "done"
    /\ \/ result' = MapOf(EmptyMap) /\ retErr' = NoErr
       \/ result' = NilMap /\ retErr' = ErrID3
    /\ UNCHANGED <<api, stream, pos, header, length, metadata, chunkStart, chunkID,
                   chunkLen, limN, err>>

\* checkRIFFLastByte without the comparison of the 4th byte with 'F'.
CheckRIFFLastByteNoCompare ==
    /\ pc = "checkRIFFLastByte"
    /\ LET rd == Read(1, Avail)
       IN  /\ pos' = pos + rd.n
           /\ IF rd.err # NoErr THEN ReturnError(rd.err)
              ELSE IF rd.n # 1 THEN ReturnError(ErrShortRead)
              ELSE /\ pc' = "newWav"
                   /\ UNCHANGED <<result, retErr>>
    /\ UNCHANGED <<api, stream, header, length, metadata, chunkStart, chunkID, chunkLen,
                   limN, err>>

\* checkRIFFLastByte, and New's return of its error.
CheckRIFFLastByte ==
    /\ pc = "checkRIFFLastByte"
    /\ LET rd == Read(1, Avail)
       IN  /\ pos' = pos + rd.n
           /\ IF rd.err # NoErr THEN ReturnError(rd.err)
              ELSE IF rd.n # 1 THEN ReturnError(ErrShortRead)
              ELSE IF Bytes(1)[1] # ByteF THEN ReturnError(ErrNotRIFF)
              ELSE /\ pc' = "newWav"
                   /\ UNCHANGED <<result, retErr>>
    /\ UNCHANGED <<api, stream, header, length, metadata, chunkStart, chunkID, chunkLen,
                   limN, err>>

\* newWav: creates the wav and gets the length.
NewWavLength ==
    /\ pc = "newWav"
    /\ LET rd == ReadFull(4, Avail)
       IN  /\ pos' = pos + rd.n
           /\ metadata' = EmptyMap
           /\ IF rd.err # NoErr
              THEN WavFails(rd.err) /\ UNCHANGED length
              ELSE /\ length' = LEInt32(Bytes(4))
                   /\ pc' = "sniffFormat"
                   /\ UNCHANGED err
    /\ UNCHANGED <<api, stream, header, chunkStart, chunkID, chunkLen, limN, result, retErr>>

\* expectFourCC over readFourCC: the error, given the outcome rd of the 4-byte
\* Read that readFourCC issues.
ExpectFourCC(rd, expected) ==
    IF rd.err # NoErr THEN rd.err
    ELSE IF rd.n # 4 THEN ErrShortRead
    ELSE IF expected # Bytes(4) THEN ErrChunkID
    ELSE NoErr

\* newWav: sniffs the format, expectFourCC(r, "WAVE").
SniffFormat ==
    /\ pc = "sniffFormat"
    /\ LET rd == Read(4, Avail)
           e == ExpectFourCC(rd, WAVE)
       IN  /\ pos' = pos + rd.n
           /\ IF e # NoErr THEN WavFails(e)
              ELSE pc' = "readSubchunks" /\ UNCHANGED err
    /\ UNCHANGED <<api, stream, header, length, metadata, chunkStart, chunkID, chunkLen,
                   limN, result, retErr>>

\* ChunkCase with a default case that skips the chunk like audio data instead
\* of failing (a skip-unknown policy).
ChunkCaseSkipUnknown(id) ==
    IF id = FMT THEN "readFormat"
    ELSE IF id = LIST THEN "readList"
    ELSE IF id = INFO THEN "readInfo"
    ELSE "discard"

\* The switch of readSubchunks on the chunk id: the case it selects.
ChunkCase(id) ==
    IF id = FMT THEN "readFormat"
    ELSE IF id = DATA THEN "discard"
    ELSE IF id = LIST THEN "readList"
    ELSE IF id = INFO THEN "readInfo"
    ELSE "default"

\* readSubchunks up to its switch: readChunk reads the chunk id (readFourCC)
\* and the int32 length (binary.Read) and wraps r in io.LimitReader(r, length).
ReadSubchunks ==
    /\ pc = "readSubchunks"
    /\ chunkStart' = pos
    /\ LET rdID == Read(4, Avail)
           rdLen == ReadFull(4, Avail - rdID.n)
           id == Bytes(4)
           len == LEInt32(SubSeq(stream, pos + 5, pos + 8))
       IN  IF rdID.err # NoErr \/ rdID.n # 4
           THEN /\ pos' = pos + rdID.n
                /\ WavFails(IF rdID.err # NoErr THEN rdID.err ELSE ErrShortRead)
                /\ UNCHANGED <<chunkID, chunkLen, limN>>
           ELSE IF rdLen.err # NoErr
           THEN /\ pos' = pos + 4 + rdLen.n
                /\ chunkID' = id
                /\ WavFails(rdLen.err)
                /\ UNCHANGED <<chunkLen, limN>>
           ELSE /\ pos' = pos + 8
                /\ chunkID' = id
                /\ chunkLen' = len
                /\ limN' = len
                /\ IF ChunkCase(id) = "default"
                   THEN WavFails(ErrUnrecognizedChunk)
                   ELSE pc' = ChunkCase(id) /\ UNCHANGED err
    /\ UNCHANGED <<api, stream, header, length, metadata, result, retErr>>

\* readAudioFormat with the property stored before the format is compared
\* with 1.
ReadAudioFormatStoreFirst ==
    /\ pc = "readFormat"
    /\ LET rd == LimitedReadFull(2, limN, Avail)
           audioFormat == LEInt16(Bytes(2))
       IN  /\ pos' = pos + rd.n
           /\ limN' = limN - rd.n
           /\ IF rd.err # NoErr
              THEN WavFails(rd.err) /\ UNCHANGED metadata
              ELSE /\ metadata' = MapSet(metadata, "AudioFormat", FormatInt(audioFormat))
                   /\ IF audioFormat # 1 THEN WavFails(ErrPCM)
                      ELSE pc' = "NumChannels" /\ UNCHANGED err
    /\ UNCHANGED <<api, stream, header, length, chunkStart, chunkID, chunkLen, result, retErr>>

\* readAudioFormat, the first read of readFormat: the format must be 1 (PCM)
\* and is stored as "AudioFormat".
ReadAudioFormat ==
    /\ pc = "readFormat"
    /\ LET rd == LimitedReadFull(2, limN, Avail)
           audioFormat == LEInt16(Bytes(2))
       IN  /\ pos' = pos + rd.n
           /\ limN' = limN - rd.n
           /\ IF rd.err # NoErr
              THEN WavFails(rd.err) /\ UNCHANGED metadata
              ELSE IF audioFormat # 1
              THEN WavFails(ErrPCM) /\ UNCHANGED metadata
              ELSE /\ metadata' = MapSet(metadata, "AudioFormat", FormatInt(audioFormat))
                   /\ pc' = "NumChannels"
                   /\ UNCHANGED err
    /\ UNCHANGED <<api, stream, header, length, chunkStart, chunkID, chunkLen, result, retErr>>

\* readFormat's order of reads: what follows the read of property prop.
AfterField(prop) ==
    CASE prop = "NumChannels" -> "SampleRate"
      [] prop = "SampleRate" -> "ByteRate"
      [] prop = "ByteRate" -> "BlockAlign"
      [] prop = "BlockAlign" -> "BitRate"
      [] prop = "BitRate" -> "return"

\* readInt16(r, prop) / readInt32(r, prop) called from readFormat: reads
\* `size` bytes and stores their decimal string as property prop.
ReadInt(prop, size) ==
    /\ pc = prop
    /\ LET rd == LimitedReadFull(size, limN, Avail)
           val == IF size = 2 THEN LEInt16(Bytes(2)) ELSE LEInt32(Bytes(4))
       IN  /\ pos' = pos + rd.n
           /\ limN' = limN - rd.n
           /\ IF rd.err # NoErr
              THEN WavFails(rd.err) /\ UNCHANGED metadata
              ELSE /\ metadata' = MapSet(metadata, prop, FormatInt(val))
                   /\ pc' = AfterField(prop)
                   /\ err' = NoErr
    /\ UNCHANGED <<api, stream, header, length, chunkStart, chunkID, chunkLen, result, retErr>>

ReadNumChannels == ReadInt("NumChannels", 2)
ReadSampleRate == ReadInt("SampleRate", 4)
ReadByteRate == ReadInt("ByteRate", 4)
ReadBlockAlign == ReadInt("BlockAlign", 2)
ReadBitRate == ReadInt("BitRate", 2)

\* case "data": io.CopyN(ioutil.Discard, r, int64(length)) discards the audio
\* data from r itself.
DiscardData ==
    /\ pc = "discard"
    /\ LET cp == CopyN(chunkLen, Avail)
       IN  /\ pos' = pos + cp.n
           /\ IF cp.err # NoErr THEN WavFails(cp.err) ELSE WavSucceeds
    /\ UNCHANGED <<api, stream, header, length, metadata, chunkStart, chunkID, chunkLen,
                   limN, result, retErr>>

\* case "LIST": readList is expectFourCC(data, "INFO") on the limited reader.
ReadList ==
    /\ pc = "readList"
    /\ LET rd == LimitedRead(4, limN, Avail)
           e == ExpectFourCC(rd, INFO)
       IN  /\ pos' = pos + rd.n
           /\ limN' = limN - rd.n
           /\ IF e # NoErr THEN WavFails(e) ELSE WavSucceeds
    /\ UNCHANGED <<api, stream, header, length, metadata, chunkStart, chunkID, chunkLen,
                   result, retErr>>

\* case "INFO": readInfo reads nothing and returns nil.
ReadInfo ==
    /\ pc = "readInfo"
    /\ WavSucceeds
    /\ UNCHANGED <<api, stream, pos, header, length, metadata, chunkStart, chunkID,
                   chunkLen, limN, result, retErr>>

\* New after newWav: an error other than io.EOF is returned with a nil map;
\* otherwise newWav's map (nil when it failed with io.EOF) and a nil error.
NewReturn ==
    /\ pc = "return"
    /\ pc' = "done"
    /\ IF err # NoErr /\ err # EOF
       THEN result' = NilMap /\ retErr' = err
       ELSE /\ result' = (IF err = NoErr THEN MapOf(metadata) ELSE NilMap)
            /\ retErr' = NoErr
    /\ UNCHANGED <<api, stream, pos, header, length, metadata, chunkStart, chunkID,
                   chunkLen, limN, err>>

\* ------------------------------------------------- NewGetter (Getter draft)
\* NewGetter, up to its switch: the same sniff as New.
GetterSniff ==
    /\ pc = "NewGetter"
    /\ LET rd == Read(3, Avail)
       IN  /\ pos' = pos + rd.n
           /\ header' = Bytes(rd.n)
           /\ IF rd.err # NoErr THEN ReturnError(rd.err)
              ELSE IF rd.n # 3 THEN ReturnError(ErrShortRead)
              ELSE IF HeaderCase(Bytes(3)) = "default"
                   THEN ReturnError(ErrUnrecognizedHeader)
              ELSE /\ pc' = (IF HeaderCase(Bytes(3)) = "newID3" THEN "newID3"
                             ELSE "getterLastByte")
                   /\ UNCHANGED <<result, retErr>>
    /\ UNCHANGED <<api, stream, length, metadata, chunkStart, chunkID, chunkLen, limN, err>>

\* NewGetter, case "RIF": reads one more byte, which must be 'F'.
GetterLastByte ==
    /\ pc = "getterLastByte"
    /\ LET rd == Read(1, Avail)
       IN  /\ pos' = pos + rd.n
           /\ IF rd.err # NoErr THEN ReturnError(rd.err)
              ELSE IF rd.n # 1 THEN ReturnError(ErrShortRead)
              ELSE IF Bytes(1)[1] # ByteF THEN ReturnError(ErrNotRIFF)
              ELSE /\ pc' = "getterNewWav"
                   /\ UNCHANGED <<result, retErr>>
    /\ UNCHANGED <<api, stream, header, length, metadata, chunkStart, chunkID, chunkLen,
                   limN, err>>

\* newWav of the Getter draft, up to readFormat: gets the length and sniffs
\* the format (expectChunkID(r, "WAVE")).  NewGetter returns newWav's error
\* as it is.
GetterNewWav ==
    /\ pc = "getterNewWav"
    /\ LET rdLen == ReadFull(4, Avail)
           rdTag == Read(4, Avail - 4)
       IN  IF rdLen.err # NoErr
           THEN /\ pos' = pos + rdLen.n
                /\ ReturnError(rdLen.err)
                /\ UNCHANGED <<length, metadata>>
           ELSE /\ length' = LEInt32(Bytes(4))
                /\ metadata' = EmptyMap
                /\ pos' = pos + 4 + rdTag.n
                /\ IF rdTag.err # NoErr THEN ReturnError(rdTag.err)
                   ELSE IF rdTag.n # 4 THEN ReturnError(ErrShortRead)
                   ELSE IF SubSeq(stream, pos + 5, pos + 8) # WAVE
                        THEN ReturnError(ErrChunkID)
                   ELSE /\ pc' = "getterReadFormat"
                        /\ UNCHANGED <<result, retErr>>
    /\ UNCHANGED <<api, stream, header, chunkStart, chunkID, chunkLen, limN, err>>

\* readFormat of the Getter draft, its first two reads: the chunk id must be
\* "fmt " (expectChunkID) and the length 16 (readFormatLength).
GetterReadFormatHeader ==
    /\ pc = "getterReadFormat"
    /\ chunkStart' = pos
    /\ LET rdID == Read(4, Avail)
           e == ExpectFourCC(rdID, FMT)
           rdLen == ReadFull(4, Avail - 4)
           len == LEInt32(SubSeq(stream, pos + 5, pos + 8))
       IN  IF e # NoErr
           THEN /\ pos' = pos + rdID.n
                /\ ReturnError(e)
                /\ UNCHANGED <<chunkID, chunkLen>>
           ELSE /\ chunkID' = Bytes(4)
                /\ pos' = pos + 4 + rdLen.n
                /\ IF rdLen.err # NoErr
                   THEN ReturnError(rdLen.err) /\ UNCHANGED chunkLen
                   ELSE /\ chunkLen' = len
                        /\ IF len # 16 THEN ReturnError(ErrFmtLength)
                           ELSE /\ pc' = "getterAudioFormat"
                                /\ UNCHANGED <<result, retErr>>
    /\ UNCHANGED <<api, stream, header, length, metadata, limN, err>>

\* readAudioFormat of the Getter draft, reading from r itself.
GetterReadAudioFormat ==
    /\ pc = "getterAudioFormat"
    /\ LET rd == ReadFull(2, Avail)
           audioFormat == LEInt16(Bytes(2))
       IN  /\ pos' = pos + rd.n
           /\ IF rd.err # NoErr
              THEN ReturnError(rd.err) /\ UNCHANGED metadata
              ELSE IF audioFormat # 1
              THEN ReturnError(ErrPCM) /\ UNCHANGED metadata
              ELSE /\ metadata' = MapSet(metadata, "AudioFormat", FormatInt(audioFormat))
                   /\ pc' = "getterNumChannels"
                   /\ UNCHANGED <<result, retErr>>
    /\ UNCHANGED <<api, stream, header, length, chunkStart, chunkID, chunkLen, limN, err>>

\* readFormat of the Getter draft: the pc after the read of property prop.
GetterAfterField(prop) ==
    CASE prop = "NumChannels" -> "getterSampleRate"
      [] prop = "SampleRate" -> "getterByteRate"
      [] prop = "ByteRate" -> "getterBlockAlign"
      [] prop = "BlockAlign" -> "getterBitRate"
      [] prop = "BitRate" -> "done"

\* readInt16 / readInt32 of the Getter draft, reading from r itself; after the
\* last one newWav and NewGetter return (getter, nil).
GetterReadInt(at, prop, size) ==
    /\ pc = at
    /\ LET rd == ReadFull(size, Avail)
           val == IF size = 2 THEN LEInt16(Bytes(2)) ELSE LEInt32(Bytes(4))
       IN  /\ pos' = pos + rd.n
           /\ IF rd.err # NoErr
              THEN ReturnError(rd.err) /\ UNCHANGED metadata
              ELSE /\ metadata' = MapSet(metadata, prop, FormatInt(val))
                   /\ pc' = GetterAfterField(prop)
                   /\ IF prop = "BitRate"
                      THEN result' = MapOf(metadata') /\ retErr' = NoErr
                      ELSE UNCHANGED <<result, retErr>>
    /\ UNCHANGED <<api, stream, header, length, chunkStart, chunkID, chunkLen, limN, err>>

GetterReadNumChannels == GetterReadInt("getterNumChannels", "NumChannels", 2)
GetterReadSampleRate == GetterReadInt("getterSampleRate", "SampleRate", 4)
GetterReadByteRate == GetterReadInt("getterByteRate", "ByteRate", 4)
GetterReadBlockAlign == GetterReadInt("getterBlockAlign", "BlockAlign", 2)
GetterReadBitRate == GetterReadInt("getterBitRate", "BitRate", 2)

Next ==
    \/ Sniff
    \/ NewID3
    \/ CheckRIFFLastByte
    \/ NewWavLength
    \/ SniffFormat
    \/ ReadSubchunks
    \/ ReadAudioFormat
    \/ ReadNumChannels
    \/ ReadSampleRate
    \/ ReadByteRate
    \/ ReadBlockAlign
    \/ ReadBitRate
    \/ DiscardData
    \/ ReadList
    \/ ReadInfo
    \/ NewReturn
    \/ GetterSniff
    \/ GetterLastByte
    \/ GetterNewWav
    \/ GetterReadFormatHeader
    \/ GetterReadAudioFormat
    \/ GetterReadNumChannels
    \/ GetterReadSampleRate
    \/ GetterReadByteRate
    \/ GetterReadBlockAlign
    \/ GetterReadBitRate

Spec == Init /\ [][Next]_vars

\* ------------------------------------------------------------------ claims
\* The claims are stated over the bytes of `stream`, independently of the
\* decoding operators of the model.
Done == pc = "done"

\* The run is one of New, the entry point the claims name.
ByNew == api = "New"

\* The stream holds the bytes s at (0-based) offset off.
Has(off, s) ==
    /\ Len(stream) >= off + Len(s)
    /\ SubSeq(stream, off + 1, off + Len(s)) = s

\* "RIFF", a 4-byte length and "WAVE": the first chunk header is at offset 12.
IsWave == Has(0, <<82, 73, 70, 70>>) /\ Has(8, <<87, 65, 86, 69>>)

\* The first chunk has a complete 8-byte header with the id `id`.
FirstChunkIs(id) == IsWave /\ Len(stream) >= 20 /\ Has(12, id)

\* The unsigned value of the little-endian field of 2 bytes at offset off.
U16At(off) == stream[off + 1] + stream[off + 2] * 256

\* The two's-complement value of the little-endian field of `size` bytes
\* (2 or 4) at offset off.
FieldAt(off, size) ==
    IF size = 2
    THEN IF stream[off + 2] >= 128 THEN U16At(off) - 65536 ELSE U16At(off)
    ELSE IF stream[off + 4] >= 128
         THEN (U16At(off) + (U16At(off + 2) - 32768) * 65536 - 2147483647) - 1
         ELSE U16At(off) + U16At(off + 2) * 65536

\* The declared length of the first chunk has its high bit clear, and is then
\* this number.
FirstLenSmall == stream[20] < 128
FirstLen == FieldAt(16, 4)

SixKeys == {"AudioFormat", "NumChannels", "SampleRate", "ByteRate", "BlockAlign", "BitRate"}

\* Where each property's field lies in the payload of a "fmt " chunk, and its
\* width.
FieldOffset(k) ==
    CASE k = "AudioFormat" -> 0 [] k = "NumChannels" -> 2 [] k = "SampleRate" -> 4
      [] k = "ByteRate" -> 8 [] k = "BlockAlign" -> 12 [] k = "BitRate" -> 14
FieldSize(k) == IF k \in {"SampleRate", "ByteRate"} THEN 4 ELSE 2

\* The value of a digit character, and of a decimal string: no sign for zero
\* and the positive numbers, no leading zero.
DigitValue(c) == CHOOSE d \in 0..9 : DigitChar[d + 1] = c

RECURSIVE NegValue(_)
NegValue(ds) ==
    IF ds = <<>> THEN 0
    ELSE NegValue(SubSeq(ds, 1, Len(ds) - 1)) * 10 - DigitValue(ds[Len(ds)])

IsDecimalOf(str, v) ==
    LET ds == IF str # <<>> /\ str[1] = "-" THEN Tail(str) ELSE str
    IN  /\ ds # <<>>
        /\ \A i \in 1..Len(ds) : \E d \in 0..9 : DigitChar[d + 1] = ds[i]
        /\ Len(ds) > 1 => ds[1] # "0"
        /\ (str[1] = "-") <=> (v < 0)
        /\ NegValue(ds) = (IF v < 0 THEN v ELSE -v)

\* A minimal container: "RIFF", length, "WAVE", one "fmt " chunk of declared
\* length 16 whose encoding tag is 1, end of stream.
IsMinimalContainer ==
    /\ Len(stream) = 36
    /\ FirstChunkIs(<<102, 109, 116, 32>>)
    /\ Has(16, <<16, 0, 0, 0>>)
    /\ Has(20, <<1, 0>>)

ExampleStream ==
    <<82, 73, 70, 70, 36, 0, 0, 0, 87, 65, 86, 69, 102, 109, 116, 32, 16, 0, 0, 0,
      1, 0, 2, 0, 68, 172, 0, 0, 16, 177, 2, 0, 4, 0, 16, 0>>

ExampleMapping ==
    [k \in SixKeys |->
        CASE k = "AudioFormat" -> <<"1">>
          [] k = "NumChannels" -> <<"2">>
          [] k = "SampleRate" -> <<"4", "4", "1", "0", "0">>
          [] k = "ByteRate" -> <<"1", "7", "6", "4", "0", "0">>
          [] k = "BlockAlign" -> <<"4">>
          [] k = "BitRate" -> <<"1", "6">>]

\* C1: for a minimal container New returns a nil error and a mapping with
\* exactly the six keys, each the decimal string of the little-endian
\* (two's-complement) field at its position in the payload; the stream with
\* 1, 2, 44100, 176400, 4, 16 gives "1", "2", "44100", "176400", "4", "16".
\* (NewGetter returns a Getter over the same six properties.)
C1_MinimalContainerSixKeys ==
    (Done /\ IsMinimalContainer) =>
        /\ retErr = NoErr
        /\ ~result.isNil
        /\ DOMAIN result.m = SixKeys
        /\ \A k \in SixKeys :
              IsDecimalOf(result.m[k], FieldAt(20 + FieldOffset(k), FieldSize(k)))
        /\ stream = ExampleStream => result.m = ExampleMapping

C1_Witness ==
    /\ Done
    /\ ByNew
    /\ stream = ExampleStream
    /\ retErr = NoErr
    /\ ~result.isNil

\* C2: for a stream of at least 4 bytes whose first 4 bytes are neither "RIFF"
\* nor begin with "TAG", New returns an unrecognized-header error and no
\* mapping, having consumed 3 bytes when the first three are not "RIF" and 4
\* when they are "RIF" followed by a byte other than 'F'; at no point has it
\* consumed more than 4.  The same holds of NewGetter.
UnrecognizedMagic ==
    /\ Len(stream) >= 4
    /\ ~Has(0, <<82, 73, 70, 70>>)
    /\ ~Has(0, <<84, 65, 71>>)

C2_UnrecognizedHeader ==
    UnrecognizedMagic =>
        /\ pos <= 4
        /\ pc \in {"New", "checkRIFFLastByte", "NewGetter", "getterLastByte", "done"}
        /\ Done =>
            /\ result.isNil
            /\ IF Has(0, <<82, 73, 70>>)
               THEN retErr = ErrNotRIFF /\ pos = 4
               ELSE retErr = ErrUnrecognizedHeader /\ pos = 3

C2_Witness ==
    /\ Done
    /\ ByNew
    /\ UnrecognizedMagic
    /\ Has(0, <<82, 73, 70>>)
    /\ retErr = ErrNotRIFF
    /\ pos = 4

\* C3: for a container whose first chunk is a "data" chunk of declared length
\* L, with its L payload bytes, followed by a valid "fmt " chunk, the parser
\* goes on to the following chunk: New succeeds and the six keys are in the
\* mapping it returns.
DataThenFmt ==
    /\ FirstChunkIs(<<100, 97, 116, 97>>)
    /\ FirstLenSmall
    /\ Has(20 + FirstLen, <<102, 109, 116, 32, 16, 0, 0, 0, 1, 0>>)
    /\ Len(stream) >= 20 + FirstLen + 24

C3_DataThenFormatDecoded ==
    (Done /\ ByNew /\ DataThenFmt) =>
        /\ retErr = NoErr
        /\ ~result.isNil
        /\ SixKeys \subseteq DOMAIN result.m

\* C4: for a stream that ends after a chunk header has begun but before its 8
\* bytes are available, New returns a non-nil error.
TruncatedChunkHeader == IsWave /\ Len(stream) > 12 /\ Len(stream) < 20

C4_TruncatedHeaderFails ==
    (Done /\ ByNew /\ TruncatedChunkHeader) => retErr # NoErr

\* C5: for a stream that ends inside a chunk's payload before a fixed-width
\* field is fully available (a "fmt " chunk of declared length 16 with fewer
\* than 16 payload bytes, a "data" chunk with fewer than its declared length
\* of bytes), New returns a non-nil error and no mapping; and New never returns
\* a nil error together with no mapping.
TruncatedPayload ==
    \/ /\ FirstChunkIs(<<102, 109, 116, 32>>)
       /\ Has(16, <<16, 0, 0, 0>>)
       /\ Has(20, <<1, 0>>)
       /\ Len(stream) < 36
    \/ /\ FirstChunkIs(<<100, 97, 116, 97>>)
       /\ FirstLenSmall
       /\ Len(stream) < 20 + FirstLen

C5_ShortReadFails ==
    (Done /\ ByNew /\ TruncatedPayload) =>
        /\ retErr # NoErr
        /\ result.isNil
        /\ ~(retErr = NoErr /\ result.isNil)

\* C6: for a "fmt " chunk whose declared length is not 16, parsing fails and
\* none of the six format keys is added to the mapping (none is returned).
FmtLengthNot16 ==
    /\ FirstChunkIs(<<102, 109, 116, 32>>)
    /\ ~Has(16, <<16, 0, 0, 0>>)

C6_FormatLengthMustBe16 ==
    (ByNew /\ FmtLengthNot16) =>
        /\ (DOMAIN metadata) \cap SixKeys = {}
        /\ Done => (retErr # NoErr /\ result.isNil)

\* C7: for a "fmt " chunk (its declared length, the int32 the parser reads, at
\* least 2, and its 2-byte encoding tag in the stream) whose encoding tag is
\* not 1, parsing fails with the unsupported-encoding error, AudioFormat is
\* never stored, no later field of the chunk is read and New returns no
\* mapping.  The same holds of NewGetter for a chunk of declared length 16.
FmtTagNot1 ==
    /\ FirstChunkIs(<<102, 109, 116, 32>>)
    /\ FirstLenSmall
    /\ FirstLen >= 2
    /\ Len(stream) >= 22
    /\ ~Has(20, <<1, 0>>)

C7_UnsupportedEncoding ==
    (FmtTagNot1 /\ (ByNew \/ Has(16, <<16, 0, 0, 0>>))) =>
        /\ metadata = EmptyMap
        /\ pos <= 22
        /\ Done => (retErr = ErrPCM /\ result.isNil /\ pos = 22)

C7_Witness ==
    /\ Done
    /\ ByNew
    /\ FmtTagNot1
    /\ retErr = ErrPCM
    /\ pos = 22

\* C8 as stated: a top-level chunk whose id is anything other than "fmt ",
\* "data" or "LIST" makes the parse fail with the unrecognized-chunk error.
C8_OnlyThreeIdsAccepted ==
    (Done /\ ByNew /\ IsWave /\ Len(stream) >= 20
          /\ ~Has(12, <<102, 109, 116, 32>>)
          /\ ~Has(12, <<100, 97, 116, 97>>)
          /\ ~Has(12, <<76, 73, 83, 84>>)) =>
        retErr = ErrUnrecognizedChunk

\* C8 as amended: a top-level chunk (its 8-byte header read) whose id is
\* anything other than "fmt ", "data", "LIST" or "INFO" makes the parse fail
\* with the unrecognized-chunk error, no mapping returned and nothing of its
\* payload consumed; an "INFO" chunk is accepted, with nothing decoded.
C8_AllowListWithInfo ==
    (Done /\ ByNew /\ IsWave /\ Len(stream) >= 20
          /\ ~Has(12, <<102, 109, 116, 32>>)
          /\ ~Has(12, <<100, 97, 116, 97>>)
          /\ ~Has(12, <<76, 73, 83, 84>>)) =>
        IF Has(12, <<73, 78, 70, 79>>)
        THEN retErr = NoErr /\ result = MapOf(EmptyMap) /\ pos = 20
        ELSE retErr = ErrUnrecognizedChunk /\ result.isNil /\ pos = 20

C8_Witness ==
    /\ Done
    /\ ByNew
    /\ FirstChunkIs(<<74, 85, 78, 75>>)
    /\ retErr = ErrUnrecognizedChunk

\* C9: after a "fmt ", "data" or "LIST" chunk has been processed without
\* error, the cursor is at chunk start + 8 + declared length (stated for the
\* chunks whose declared length is below 2^31 and whose payload is all in the
\* stream; the larger lengths are the case of C10).
ChunkProcessed ==
    /\ ByNew
    /\ pc \in {"return", "done"}
    /\ err = NoErr
    /\ chunkID \in {<<102, 109, 116, 32>>, <<100, 97, 116, 97>>, <<76, 73, 83, 84>>}

C9_CursorAfterChunk ==
    (ChunkProcessed /\ FirstLenSmall /\ Len(stream) >= 20 + FirstLen) =>
        pos = chunkStart + 8 + FirstLen

\* C10: the chunk length is an unsigned 32-bit integer: for a "data" chunk of
\* any declared length L, high bit set included, the parser either discards
\* exactly L bytes or fails; it never succeeds without consuming the payload.
C10_UnsignedDataLength ==
    (Done /\ ByNew /\ FirstChunkIs(<<100, 97, 116, 97>>)) =>
        \/ retErr # NoErr
        \/ result.isNil
        \/ (FirstLenSmall /\ pos = 20 + FirstLen)
====
